---- MODULE Spec2Model ----
(***************************************************************************)
(* TEBD sweep scheduler of toycodes/c_tebd.py: run_TEBD and update_bond     *)
(* acting on an MPS container psi (fields L, bc, Bs, Ss).                   *)
(*                                                                          *)
(* Tensors are abstracted to their bond dimensions plus a content residue   *)
(* modulo P: Bs[i] is [vL, vR, val] (the physical leg always has dimension  *)
(* D), Ss[i] is [len, val].  A contraction is a fixed mixing function of    *)
(* the contents it reads, so a value depends on everything it was computed  *)
(* from.  The container operations get_theta2 and the truncation engine     *)
(* split_truncate_theta live in a_mps, which is not part of the sources at  *)
(* hand; they are modelled from the specification (sections 4.1, 4.2).      *)
(***************************************************************************)
EXTENDS Integers, Sequences, FiniteSets, TLC

\* ---- bounds of the model ------------------------------------------------
MaxL == 3
MaxChi == 2
MaxSteps == 2
MaxCalls == 1
D == 2
P == 251

VARIABLES
    L,        \* psi.L
    bc,       \* psi.bc
    Bs,       \* psi.Bs : 0..L-1 -> [vL, vR, val]
    Ss,       \* psi.Ss : 0..L-1 -> [len, val]
    U_bonds,  \* argument of the running call: sequence of gates [id, d]
    N_steps,  \* argument of the running call
    chi_max,  \* argument of the running call
    n, k, i_bond,   \* loop variables of run_TEBD
    pc,       \* "idle" | "loop" | "done" | "raised"
    err,      \* exception that ended the call, "" if none
    log,      \* history: completed update_bond calls of this run, <<n, k, i_bond, gate id>>
    Bs0, Ss0, \* history: psi.Bs / psi.Ss when the running call was entered
    calls     \* history: number of run_TEBD calls made

vars == <<L, bc, Bs, Ss, U_bonds, N_steps, chi_max, n, k, i_bond, pc, err, log, Bs0, Ss0, calls>>

Sites == 0 .. (L - 1)

\* content of a contraction result: a rolling mix of the contents it reads
RECURSIVE Mix(_)
Mix(s) ==
    IF s = <<>> THEN 7
    ELSE (Mix(Tail(s)) * 31 + Head(s) + 1) % P

\* ---- MPS container and truncation engine (a_mps) -------------------------

\* MPS.get_theta2(i): diag(Ss[i]) . Bs[i] . Bs[(i+1) % L], legs vL i j vR
get_theta2(B, S, len, bcond, i) ==
    LET j == (i + 1) % len
    IN  IF i < 0 \/ i >= len \/ (bcond = "finite" /\ i = len - 1)
        THEN [ok |-> FALSE, err |-> "IndexError"]
        ELSE IF S[i].len # B[i].vL \/ B[i].vR # B[j].vL
        THEN [ok |-> FALSE, err |-> "ValueError"]
        ELSE [ok |-> TRUE, err |-> "", vL |-> S[i].len, vR |-> B[j].vR,
              val |-> Mix(<<1, S[i].val, B[i].val, B[j].val>>)]

\* ranks the truncation may retain: at least 1, at most chi_max and the
\* number of singular values of the (vL*D) x (D*vR) matrix; which one depends
\* on the singular values and eps
RetainedRanks(theta, cmax) ==
    {c \in 1 .. cmax : c <= theta.vL * D /\ c <= D * theta.vR}

\* split_truncate_theta(theta, chi_max, eps): the set of possible outcomes;
\* the decomposition may not converge (NumericalError)
split_truncate_theta(theta, cmax) ==
    IF cmax < 1
    THEN {[ok |-> FALSE, err |-> "DimensionError"]}
    ELSE {[ok |-> FALSE, err |-> "NumericalError"]}
         \cup
         {[ok |-> TRUE, err |-> "",
           A |-> [vL |-> theta.vL, vR |-> c, val |-> Mix(<<2, theta.val>>)],
           S |-> [len |-> c, val |-> Mix(<<3, theta.val>>)],
           B |-> [vL |-> c, vR |-> theta.vR, val |-> Mix(<<4, theta.val>>)]]
          : c \in RetainedRanks(theta, cmax)}

\* ---- c_tebd.py -----------------------------------------------------------

RightSite_NoStep(i, len) == i

\* j = (i + 1) % psi.L
RightSite(i, len) == (i + 1) % len

\* np.tensordot(U_bond, theta, axes=([2, 3], [1, 2])) and the transpose
ApplyGate(U, theta) ==
    IF U.d # D
    THEN [ok |-> FALSE, err |-> "ValueError"]
    ELSE [ok |-> TRUE, err |-> "", vL |-> theta.vL, vR |-> theta.vR,
          val |-> Mix(<<5, U.id, theta.val>>)]

\* Gi = np.tensordot(np.diag(psi.Ss[i]**(-1)), Ai, axes=[1, 0]); the inverse
\* of a zero Schmidt value may raise (FloatingPointError under errstate raise)
GaugeLeft(Si, Ai) ==
    IF Si.len # Ai.vL
    THEN {[ok |-> FALSE, err |-> "ValueError"]}
    ELSE {[ok |-> FALSE, err |-> "FloatingPointError"],
          [ok |-> TRUE, err |-> "", vL |-> Si.len, vR |-> Ai.vR,
           val |-> Mix(<<6, Si.val, Ai.val>>)]}

\* the three stores of update_bond, in program order
PutBack(B, S, i, j, Gi, Sj, Bj) ==
    LET B1 == [B EXCEPT ![i] = [vL |-> Gi.vL, vR |-> Sj.len,
                                val |-> Mix(<<8, Gi.val, Sj.val>>)]]
        S1 == [S EXCEPT ![j] = Sj]
        B2 == [B1 EXCEPT ![j] = Bj]
    IN  [ok |-> TRUE, err |-> "", Bs |-> B2, Ss |-> S1, chi |-> Sj.len]

Raise(B, S, e) == [ok |-> FALSE, err |-> e, Bs |-> B, Ss |-> S, chi |-> 0]

\* update_bond with psi.Ss[j] = Sj moved up, before the gauge contraction
update_bond_StoreEarly(B, S, len, bcond, i, U, cmax) ==
    LET j == RightSite(i, len)
        theta == get_theta2(B, S, len, bcond, i)
    IN  IF ~theta.ok THEN {Raise(B, S, theta.err)}
        ELSE LET Utheta == ApplyGate(U, theta)
             IN  IF ~Utheta.ok THEN {Raise(B, S, Utheta.err)}
                 ELSE UNION {
                        IF ~sp.ok THEN {Raise(B, S, sp.err)}
                        ELSE {IF ~Gi.ok THEN Raise(B, [S EXCEPT ![j] = sp.S], Gi.err)
                              ELSE PutBack(B, S, i, j, Gi, sp.S, sp.B)
                              : Gi \in GaugeLeft(S[i], sp.A)}
                        : sp \in split_truncate_theta(Utheta, cmax)}

\* update_bond(psi, i, U_bond, chi_max, eps): the set of possible outcomes
\* [ok, err, Bs, Ss, chi]
update_bond(B, S, len, bcond, i, U, cmax) ==
    LET j == RightSite(i, len)
        theta == get_theta2(B, S, len, bcond, i)
    IN  IF ~theta.ok THEN {Raise(B, S, theta.err)}
        ELSE LET Utheta == ApplyGate(U, theta)
             IN  IF ~Utheta.ok THEN {Raise(B, S, Utheta.err)}
                 ELSE UNION {
                        IF ~sp.ok THEN {Raise(B, S, sp.err)}
                        ELSE {IF ~Gi.ok THEN Raise(B, S, Gi.err)
                              ELSE PutBack(B, S, i, j, Gi, sp.S, sp.B)
                              : Gi \in GaugeLeft(S[i], sp.A)}
                        : sp \in split_truncate_theta(Utheta, cmax)}

\* Nbonds = psi.L - 1 if psi.bc == 'finite' else psi.L
Nbonds(len, bcond) == IF bcond = "finite" THEN len - 1 ELSE len

LengthOK_AtLeast(ulen, nb) == ulen >= nb

\* assert len(U_bonds) == Nbonds
LengthOK(ulen, nb) == ulen = nb

StepInRange_Inclusive(m, N) == m <= N

\* condition of  for n in range(N_steps)
StepInRange(m, N) == m < N

RangeStart_OddFirst(kk) == 1 - kk

\* first value of  range(k, Nbonds, 2)
RangeStart(kk) == kk

\* the loop nest of run_TEBD: the first position at or after (m, kk, i) at
\* which the body runs, or none when the loops are exhausted
RECURSIVE Seek(_, _, _, _, _)
Seek(m, kk, i, N, nb) ==
    IF ~StepInRange(m, N) THEN [more |-> FALSE, n |-> 0, k |-> 0, i |-> 0]
    ELSE IF kk > 1 THEN Seek(m + 1, 0, RangeStart(0), N, nb)
    ELSE IF i < nb THEN [more |-> TRUE, n |-> m, k |-> kk, i |-> i]
    ELSE Seek(m, kk + 1, RangeStart(kk + 1), N, nb)

\* U_bonds[i_bond]  (sequences are 1-based)
GateOf(U, i) == U[i + 1]

\* ---- initial states -------------------------------------------------------
\* An MPS in the layout of section 3: Bs[i].vL = len(Ss[i]), Bs[i].vR is the
\* left dimension of the next site; a finite chain has trivial boundary bonds.
InitChis(len, bcond) ==
    {c \in [0 .. (len - 1) -> 1 .. MaxChi] : bcond = "finite" => c[0] = 1}

InitBs(len, bcond, c) ==
    [i \in 0 .. (len - 1) |->
        [vL |-> c[i],
         vR |-> IF bcond = "finite" /\ i = len - 1 THEN 1 ELSE c[(i + 1) % len],
         val |-> Mix(<<9, i>>)]]

InitSs(len, c) ==
    [i \in 0 .. (len - 1) |-> [len |-> c[i], val |-> Mix(<<10, i>>)]]

Init ==
    /\ L \in 1 .. MaxL
    /\ bc \in {"finite", "infinite"}
    /\ \E c \in InitChis(L, bc) :
          /\ Bs = InitBs(L, bc, c)
          /\ Ss = InitSs(L, c)
    /\ U_bonds = <<>>
    /\ N_steps = 0
    /\ chi_max = 0
    /\ n = 0
    /\ k = 0
    /\ i_bond = 0
    /\ pc = "idle"
    /\ err = ""
    /\ log = <<>>
    /\ Bs0 = Bs
    /\ Ss0 = Ss
    /\ calls = 0

\* ---- actions --------------------------------------------------------------

\* gate lists a caller may pass: one gate per entry, each with its own id;
\* of the right length, one too short or one too long, and (at the right
\* length) possibly built for another physical dimension
GateLists(nb) ==
    {[b \in 1 .. m |-> [id |-> b, d |-> D]] : m \in {x \in {nb - 1, nb, nb + 1} : x >= 0}}
    \cup {[b \in 1 .. nb |-> [id |-> b, d |-> D + 1]]}

\* run_TEBD is called (no caller catches, so never after an exception):
\* lines 27-28, and the loop nest up to its first body
run_TEBD_enter ==
    /\ pc \in {"idle", "done"}
    /\ calls < MaxCalls
    /\ \E U \in GateLists(Nbonds(L, bc)), N \in 0 .. MaxSteps, cm \in 0 .. MaxChi :
          LET p == Seek(0, 0, RangeStart(0), N, Nbonds(L, bc))
          IN  /\ U_bonds' = U
              /\ N_steps' = N
              /\ chi_max' = cm
              /\ IF ~LengthOK(Len(U), Nbonds(L, bc))
                 THEN /\ pc' = "raised"
                      /\ err' = "AssertionError"
                      /\ n' = 0 /\ k' = 0 /\ i_bond' = 0
                 ELSE /\ pc' = IF p.more THEN "loop" ELSE "done"
                      /\ err' = ""
                      /\ n' = p.n /\ k' = p.k /\ i_bond' = p.i
    /\ log' = <<>>
    /\ Bs0' = Bs
    /\ Ss0' = Ss
    /\ calls' = calls + 1
    /\ UNCHANGED <<L, bc, Bs, Ss>>

\* one pass through the loop body (line 32) and on to the next position
run_TEBD_step ==
    /\ pc = "loop"
    /\ \E r \in update_bond(Bs, Ss, L, bc, i_bond, GateOf(U_bonds, i_bond), chi_max) :
          /\ Bs' = r.Bs
          /\ Ss' = r.Ss
          /\ IF r.ok
             THEN LET p == Seek(n, k, i_bond + 2, N_steps, Nbonds(L, bc))
                  IN  /\ log' = Append(log, <<n, k, i_bond, GateOf(U_bonds, i_bond).id>>)
                      /\ pc' = IF p.more THEN "loop" ELSE "done"
                      /\ err' = ""
                      /\ n' = p.n /\ k' = p.k /\ i_bond' = p.i
             ELSE /\ pc' = "raised"
                  /\ err' = r.err
                  /\ UNCHANGED <<log, n, k, i_bond>>
    /\ UNCHANGED <<L, bc, U_bonds, N_steps, chi_max, Bs0, Ss0, calls>>

Next == run_TEBD_enter \/ run_TEBD_step

Spec == Init /\ [][Next]_vars

\* ---- vocabulary of the properties ----------------------------------------

\* number of bonds of the chain as the data model defines it
BondCount == IF bc = "finite" THEN L - 1 ELSE L

\* a run_TEBD call has been entered (it may have returned or raised since)
Entered == pc # "idle"

\* the call ended in an exception raised inside a bond update
FailedInUpdate == pc = "raised" /\ err # "AssertionError"

\* bond indices below nb of one parity, ascending
BondsOfParity(par, nb) ==
    [t \in 1 .. Cardinality({i \in 0 .. (nb - 1) : i % 2 = par}) |-> par + 2 * (t - 1)]

\* bond order of one time step: the even bonds, then the odd bonds
StepOrder(nb) == BondsOfParity(0, nb) \o BondsOfParity(1, nb)

\* the two sites a bond acts on
SitePair(i) == {i, (i + 1) % L}

\* psi.Ss entries a sweep writes
SweptBonds == IF bc = "finite" THEN 1 .. (L - 1) ELSE 0 .. (L - 1)

\* the outcome of update_bond without truncation below the cap and without
\* a library failure, when there is one; otherwise its failure
Untruncated(outs) ==
    IF \E r \in outs : r.ok
    THEN CHOOSE r \in outs : r.ok /\ \A q \in outs : q.ok => q.chi <= r.chi
    ELSE CHOOSE r \in outs : TRUE

\* Bs/Ss after the updates of the bonds in `order`, one after the other
RECURSIVE AfterUpdates(_, _, _)
AfterUpdates(B, S, order) ==
    IF order = <<>> THEN <<B, S>>
    ELSE LET r == Untruncated(update_bond(B, S, L, bc, Head(order),
                                          GateOf(U_bonds, Head(order)), chi_max))
         IN  AfterUpdates(r.Bs, r.Ss, Tail(order))

\* every ordering of the bonds of the parity class of half-sweep kk
Orderings(kk) ==
    LET asc == BondsOfParity(kk, BondCount)
    IN  {[t \in 1 .. Len(asc) |-> asc[f[t]]] :
            f \in {g \in [1 .. Len(asc) -> 1 .. Len(asc)] :
                      \A a, b \in 1 .. Len(asc) : a # b => g[a] # g[b]}}

\* ---- C1 --------------------------------------------------------------------
\* C1: a call whose gate list has not exactly one gate per bond fails on the
\* length assertion with no bond update executed and every Bs[i] / Ss[i] as
\* it was when the call was entered, whatever N_steps and L are.
C1_ValidateBeforeMutate ==
    (Entered /\ Len(U_bonds) # BondCount)
        => /\ pc = "raised"
           /\ err = "AssertionError"
           /\ log = <<>>
           /\ Bs = Bs0
           /\ Ss = Ss0

C1_Witness ==
    /\ pc = "raised"
    /\ err = "AssertionError"
    /\ Len(U_bonds) = BondCount + 1
    /\ N_steps >= 1
    /\ L >= 2

\* ---- C2 --------------------------------------------------------------------
\* C2: the bond updates of a run are, in order, N_steps repetitions of "all
\* even bonds ascending, then all odd bonds ascending", each with the gate
\* U_bonds[i_bond]; a run that returns has made exactly N_steps * Nbonds
\* updates, and a run in progress or ended by an exception a prefix of them.
C2_SweepOrder ==
    /\ Len(log) <= N_steps * BondCount
    /\ \A t \in 1 .. Len(log) :
          LET b == StepOrder(BondCount)[((t - 1) % BondCount) + 1]
          IN  /\ log[t][1] = (t - 1) \div BondCount
              /\ log[t][3] = b
              /\ log[t][2] = b % 2
              /\ log[t][4] = U_bonds[b + 1].id
    /\ \A t1, t2 \in 1 .. Len(log) :
          (t1 < t2 /\ log[t1][1] = log[t2][1] /\ log[t2][3] % 2 = 0)
              => log[t1][3] % 2 = 0
    /\ pc = "done" => Len(log) = N_steps * BondCount

C2_Witness ==
    /\ pc = "done"
    /\ N_steps = 2
    /\ bc = "infinite"
    /\ L = 3
    /\ Len(log) = 6

\* ---- C3 --------------------------------------------------------------------
\* C3: two distinct bonds updated in the same half-sweep (same n, same k)
\* act on disjoint site pairs {i, (i+1) mod L}.
C3_DisjointSitePairs ==
    \A t1, t2 \in 1 .. Len(log) :
        (t1 # t2 /\ log[t1][1] = log[t2][1] /\ log[t1][2] = log[t2][2])
            => SitePair(log[t1][3]) \cap SitePair(log[t2][3]) = {}

\* ---- C4 --------------------------------------------------------------------
\* C4: on a chain with L = 1 a run executes no bond update and leaves Bs and
\* Ss unchanged, for both boundary conditions.
C4_SingleSiteNoOp ==
    L = 1 => (log = <<>> /\ Bs = Bs0 /\ Ss = Ss0)

\* ---- C5 --------------------------------------------------------------------
\* C5: a call with N_steps = 0 and a gate list of the right length returns
\* without executing a bond update, every Bs[i] and Ss[i] as on entry.
C5_ZeroStepsNoOp ==
    (Entered /\ N_steps = 0 /\ Len(U_bonds) = BondCount)
        => /\ pc = "done"
           /\ log = <<>>
           /\ Bs = Bs0
           /\ Ss = Ss0

C5_Witness ==
    /\ pc = "done"
    /\ N_steps = 0
    /\ Len(U_bonds) = BondCount
    /\ bc = "infinite"
    /\ L = 3

\* ---- C6 --------------------------------------------------------------------
\* C6: a bond update that raises has modified nothing (Bs and Ss are as they
\* were before that update); the updates completed before it stay recorded
\* and applied, the run stops at the failing bond, and nothing is updated
\* after the exception.
C6_AtomicFailure ==
    [][/\ (pc = "loop" /\ pc' = "raised")
            => /\ Bs' = Bs
               /\ Ss' = Ss
               /\ log' = log
               /\ i_bond' = i_bond
               /\ err' # ""
       /\ pc = "raised" => (Bs' = Bs /\ Ss' = Ss /\ log' = log)]_vars

C6_Witness ==
    /\ FailedInUpdate
    /\ err = "FloatingPointError"
    /\ Len(log) >= 1
    /\ Bs # Bs0
    /\ Ss # Ss0

\* ---- C7 --------------------------------------------------------------------
\* C7: after a bond update of bond i with chi_max >= 1 the stored Ss[j],
\* j = (i+1) mod L, has between 1 and chi_max entries; after a run with
\* N_steps >= 1 that returned, every bond vector the sweep writes has at most
\* chi_max entries, whatever the initial bond dimensions were.
C7_BondDimensionCeiling ==
    /\ (Len(log) >= 1 /\ chi_max >= 1)
          => LET j == (log[Len(log)][3] + 1) % L
             IN  Ss[j].len >= 1 /\ Ss[j].len <= chi_max
    /\ (pc = "done" /\ N_steps >= 1 /\ chi_max >= 1)
          => \A j \in SweptBonds : Ss[j].len >= 1 /\ Ss[j].len <= chi_max

C7_Witness ==
    /\ pc = "done"
    /\ N_steps >= 1
    /\ chi_max = 1
    /\ L = 3
    /\ \A j \in SweptBonds : Ss0[j].len = 2 /\ Ss[j].len = 1

\* ---- C8 --------------------------------------------------------------------
\* C8: in every reachable state every site's left bond dimension equals
\* len(Ss[i]) and its right bond dimension equals the left bond dimension of
\* the next site (for the last site of a finite chain: the boundary
\* dimension it started with).
C8_ShapeConsistent ==
    \A i \in Sites :
        /\ Bs[i].vL = Ss[i].len
        /\ IF bc = "finite" /\ i = L - 1
           THEN Bs[i].vR = 1
           ELSE Bs[i].vR = Bs[(i + 1) % L].vL

\* ---- C9 --------------------------------------------------------------------
\* C9: at the start of a half-sweep, updating the bonds of its parity class
\* in any order leaves the same Bs / Ss as updating them in ascending order.
C9_OrderIndependent ==
    (pc = "loop" /\ i_bond = k)
        => \A order \in Orderings(k) :
              AfterUpdates(Bs, Ss, order)
                  = AfterUpdates(Bs, Ss, BondsOfParity(k, BondCount))

\* ---- C10 -------------------------------------------------------------------
\* C10: a successful update of bond i changes nothing but Bs[i], Ss[j] and
\* Bs[j], j = (i+1) mod L: Ss[i], every other entry, L, bc and the gate list
\* stay as they were; on a finite chain j is never 0 and Ss[0] never changes.
C10_UpdateFrame ==
    [][(pc = "loop" /\ pc' # "raised")
          => LET i == i_bond
                 j == (i_bond + 1) % L
             IN  /\ Ss'[i] = Ss[i]
                 /\ \A m \in Sites \ {i, j} : Bs'[m] = Bs[m]
                 /\ \A m \in Sites \ {j} : Ss'[m] = Ss[m]
                 /\ L' = L
                 /\ bc' = bc
                 /\ U_bonds' = U_bonds
                 /\ bc = "finite" => (j # 0 /\ Ss'[0] = Ss[0])]_vars

====
